---------------------------- MODULE Spec2Model ----------------------------
(***************************************************************************)
(* Ableton VST Auditor (src/ableton_vst_audit.py): the AbletonVSTAuditor   *)
(* scan pipeline -- file discovery, project parsing, manufacturer          *)
(* resolution, aggregation and report rendering -- as a state machine.     *)
(*                                                                         *)
(* Python strings are TLA+ strings; TLC evaluates Len, SubSeq and \o on    *)
(* them.  Python's None is modelled as the empty string wherever the code  *)
(* only tests the value for truthiness (elem.text, elem.get('Name'), the   *)
(* results of the two manufacturer heuristics, which are None or a         *)
(* non-empty string).                                                      *)
(***************************************************************************)
EXTENDS Integers, Sequences, FiniteSets, TLC

(***************************************************************************)
(* Bounds of the model.                                                    *)
(***************************************************************************)
\* Largest number of project files one directory listing holds.
MaxFiles == 2
\* Number of scan_directory calls made on the one auditor.
MaxScans == 2
\* Largest number of separator-delimited segments of a Rule A input path.
MaxSegs == 3

(***************************************************************************)
(* Python string primitives.                                               *)
(***************************************************************************)
Char(s, i) == SubSeq(s, i, i)

\* str.lower(), one character.
LowerChar(c) ==
    CASE c = "A" -> "a" [] c = "B" -> "b" [] c = "C" -> "c" [] c = "D" -> "d"
      [] c = "E" -> "e" [] c = "F" -> "f" [] c = "G" -> "g" [] c = "H" -> "h"
      [] c = "I" -> "i" [] c = "J" -> "j" [] c = "K" -> "k" [] c = "L" -> "l"
      [] c = "M" -> "m" [] c = "N" -> "n" [] c = "O" -> "o" [] c = "P" -> "p"
      [] c = "Q" -> "q" [] c = "R" -> "r" [] c = "S" -> "s" [] c = "T" -> "t"
      [] c = "U" -> "u" [] c = "V" -> "v" [] c = "W" -> "w" [] c = "X" -> "x"
      [] c = "Y" -> "y" [] c = "Z" -> "z" [] OTHER -> c

RECURSIVE Lower(_)
\* str.lower()
Lower(s) == IF s = "" THEN "" ELSE LowerChar(Head(s)) \o Lower(Tail(s))

\* The characters str.strip() removes.
IsSpace(c) == c \in {" ", "\t", "\n", "\r"}

RECURSIVE LStrip(_)
LStrip(s) == IF s # "" /\ IsSpace(Head(s)) THEN LStrip(Tail(s)) ELSE s

RECURSIVE RStrip(_)
RStrip(s) ==
    IF s # "" /\ IsSpace(Char(s, Len(s)))
    THEN RStrip(SubSeq(s, 1, Len(s) - 1))
    ELSE s

\* str.strip()
Strip(s) == RStrip(LStrip(s))

\* needle in hay
Contains(hay, needle) ==
    \E i \in 1..(Len(hay) - Len(needle) + 1) :
        SubSeq(hay, i, i + Len(needle) - 1) = needle

\* str.endswith()
EndsWith(s, suffix) ==
    /\ Len(suffix) <= Len(s)
    /\ SubSeq(s, Len(s) - Len(suffix) + 1, Len(s)) = suffix

RECURSIVE ReplaceFrom(_, _, _, _)
ReplaceFrom(s, old, new, i) ==
    IF i > Len(s) THEN ""
    ELSE IF i + Len(old) - 1 <= Len(s) /\ SubSeq(s, i, i + Len(old) - 1) = old
         THEN new \o ReplaceFrom(s, old, new, i + Len(old))
         ELSE Char(s, i) \o ReplaceFrom(s, old, new, i + 1)

\* str.replace(old, new), old non-empty
Replace(s, old, new) == ReplaceFrom(s, old, new, 1)

RECURSIVE SplitFrom(_, _, _, _)
SplitFrom(s, sep, i, cur) ==
    IF i > Len(s) THEN <<cur>>
    ELSE IF Char(s, i) = sep
         THEN <<cur>> \o SplitFrom(s, sep, i + 1, "")
         ELSE SplitFrom(s, sep, i + 1, cur \o Char(s, i))

\* str.split(sep), sep one character
Split(s, sep) == SplitFrom(s, sep, 1, "")

(***************************************************************************)
(* Rule A: extract_manufacturer_from_path.                                 *)
(***************************************************************************)
\* skip_folders
skip_folders ==
    {"vst", "vst2", "vst3", "_effects", "_effects 2", "effects", "mastering",
     "reverb", "distortion", "slowmo", "delay", "compression", "eq",
     "modulation", "d:", "c:", "program files", "program files (x86)", "x64",
     "x86", "plugins", "steinberg", "vstplugins", "64-bit", "32-bit"}

\* path_parts = dll_path.replace('\\', '/').split('/')
PathParts(dll_path) == Split(Replace(dll_path, "\\", "/"), "/")

\* The index i of the outer loop at which the code enters the DLL branch:
\* the first part whose lowercase ends in '.dll' (the branch ends in break);
\* 0 when the loop runs out.
FirstDllIndex(path_parts) ==
    LET hits == {i \in 1..Len(path_parts) :
                    EndsWith(Lower(path_parts[i]), ".dll")}
    IN  IF hits = {} THEN 0
        ELSE CHOOSE i \in hits : \A k \in hits : i <= k

\* Mutant of FolderQualifies: the length test admits two-character folders.
FolderQualifiesLoose(folder) ==
    /\ folder # ""
    /\ Lower(folder) \notin skip_folders
    /\ Len(folder) >= 2

\* folder and folder.lower() not in skip_folders and len(folder) > 2
FolderQualifies(folder) ==
    /\ folder # ""
    /\ Lower(folder) \notin skip_folders
    /\ Len(folder) > 2

RECURSIVE ScanBack(_, _)
\* for j in range(i-1, -1, -1): folder = path_parts[j].strip(); ...
\* (j is 1-based here; 0 is the loop running out, which returns None)
ScanBack(path_parts, j) ==
    IF j < 1 THEN ""
    ELSE LET folder == Strip(path_parts[j])
         IN  IF FolderQualifies(folder) THEN folder
             ELSE ScanBack(path_parts, j - 1)

\* extract_manufacturer_from_path; "" is None
extract_manufacturer_from_path(dll_path) ==
    IF dll_path = "" THEN ""
    ELSE LET path_parts == PathParts(dll_path)
             i == FirstDllIndex(path_parts)
         IN  IF i = 0 THEN "" ELSE ScanBack(path_parts, i - 1)

(***************************************************************************)
(* Rule B: get_manufacturer_from_plugin_name.                              *)
(***************************************************************************)
\* manufacturer_patterns, in dict (insertion) order
manufacturer_patterns ==
    << <<"tal-", "TAL-Software">>,
       <<"labs", "Spitfire Audio">>,
       <<"ozone", "iZotope">>,
       <<"levels", "Mastering the Mix">>,
       <<"rc-20", "XLN Audio">>,
       <<"halftime", "Cable Guys">>,
       <<"blackhole", "Eventide">>,
       <<"decapitator", "Soundtoys">>,
       <<"waveshell", "Waves">>,
       <<"2getheraudio", "2getheraudio">>,
       <<"cherry", "Cherry Audio">> >>

RECURSIVE FirstPattern(_, _)
\* for pattern, manufacturer in manufacturer_patterns.items(): ...
FirstPattern(plugin_lower, k) ==
    IF k > Len(manufacturer_patterns) THEN ""
    ELSE IF Contains(plugin_lower, manufacturer_patterns[k][1])
         THEN manufacturer_patterns[k][2]
         ELSE FirstPattern(plugin_lower, k + 1)

\* get_manufacturer_from_plugin_name; "" is None
get_manufacturer_from_plugin_name(plugin_name) ==
    IF plugin_name = "" THEN "" ELSE FirstPattern(Lower(plugin_name), 1)

(***************************************************************************)
(* State.                                                                  *)
(***************************************************************************)
VARIABLES
    os_name,            \* os.name of the interpreter: decides os.path.basename
    vst_usage,          \* self.vst_usage: Counter, reference -> count
    project_vsts,       \* self.project_vsts: file path -> list of references
    vst_manufacturers,  \* self.vst_manufacturers: reference -> manufacturer
    processed_files,    \* self.processed_files
    total_files,        \* self.total_files
    current_file,       \* self.current_file
    als_files,          \* scan_directory's local als_files (kept after return)
    file_index,         \* files the for loop of scan_directory has taken
    pc,                 \* "idle"; in scan_directory's loop "scanning" (between
                        \* files) or "parsing" (a file announced, not parsed)
    scans,              \* number of scan_directory calls started
    start_manufacturers,\* history: vst_manufacturers when the scan started
    report,             \* lines generate_report wrote since the last scan
    progress_callback,  \* self.progress_callback is set (TRUE) or None (FALSE)
    progress,           \* messages the hook received in this scan_directory call
    path_arg,           \* Rule A specification: the input path
    rule_a,             \* Rule A specification: [done, result]
    threads,            \* concurrent calls: each caller's position and locals
    walk,               \* the walk of one document: position and tables
    gui                 \* AbletonVSTGUI: buttons, worker, pending callbacks

vars == <<os_name, vst_usage, project_vsts, vst_manufacturers,
          processed_files, total_files, current_file, als_files, file_index,
          pc, scans,
          start_manufacturers, report, progress_callback, progress,
          path_arg, rule_a, threads, walk, gui>>

(***************************************************************************)
(* Dictionaries.                                                           *)
(***************************************************************************)
EmptyMap == [k \in {} |-> ""]

\* d[k] = v
Put(d, k, v) == [x \in DOMAIN d \cup {k} |-> IF x = k THEN v ELSE d[x]]

\* d.get(k), "" for None
Get(d, k) == IF k \in DOMAIN d THEN d[k] ELSE ""

\* Counter lookup: a missing key counts 0
Get0(d, k) == IF k \in DOMAIN d THEN d[k] ELSE 0

\* x in list
InList(x, list) == \E i \in 1..Len(list) : list[i] = x

\* The elements of a list.
Range(list) == {list[i] : i \in 1..Len(list)}

(***************************************************************************)
(* os.path.basename, posixpath and ntpath.                                 *)
(***************************************************************************)
LastSep(p, seps) ==
    LET idx == {i \in 1..Len(p) : Char(p, i) \in seps}
    IN  IF idx = {} THEN 0 ELSE CHOOSE i \in idx : \A k \in idx : k <= i

PosixBasename(p) == SubSeq(p, LastSep(p, {"/"}) + 1, Len(p))

\* ntpath.basename: the drive letter is split off first, then the tail after
\* the last of the two separators (UNC prefixes are outside the inputs used).
NtBasename(p) ==
    LET rest == IF Len(p) >= 2 /\ Char(p, 2) = ":"
                THEN SubSeq(p, 3, Len(p)) ELSE p
    IN  SubSeq(rest, LastSep(rest, {"/", "\\"}) + 1, Len(rest))

\* os.path.basename under the given os.name
BasenameOn(os, p) == IF os = "nt" THEN NtBasename(p) ELSE PosixBasename(p)

basename(p) == BasenameOn(os_name, p)

(***************************************************************************)
(* The file system: directory entries and the decompressed, parsed project *)
(* files.  A document is the list of its elements in root.iter() order;    *)
(* an element is [tag, text, attrib, children], attrib a list of           *)
(* <<name, value>> and children the positions of its immediate children.   *)
(***************************************************************************)
Elem(tag, text, attrib, children) ==
    [tag |-> tag, text |-> text, attrib |-> attrib, children |-> children]

\* project 1: CompanyX/Widget.dll on two tracks, once as text, once as attribute
DocOne ==
    << Elem("Ableton", "", <<>>, <<2, 3>>),
       Elem("Path", "CompanyX/Widget.dll", <<>>, <<>>),
       Elem("Path", "", << <<"Value", "CompanyX/Widget.dll">> >>, <<>>) >>

\* project 2: Widget.dll with no folder in front of it
DocTwo ==
    << Elem("Ableton", "", <<>>, <<2>>),
       Elem("FileRef", " Widget.dll ", <<>>, <<>>) >>

\* project 4: a Windows path, a browser content path whose manufacturer
\* field is empty, and a plugin descriptor carrying a name
DocFour ==
    << Elem("Ableton", "", <<>>, <<2, 3, 5>>),
       Elem("Path", "", << <<"Value", "D:\\VST\\OtherCo\\Widget.dll">> >>, <<>>),
       Elem("BrowserContentPath", "", <<>>, <<4>>),
       Elem("Value", "query:Plugins#VST::Widget", <<>>, <<>>),
       Elem("VstPluginInfo", "", << <<"Name", "TAL-Reverb-4">> >>, <<>>) >>

\* project 5: Widget.dll under a vendor folder, a browser content path naming
\* another manufacturer for it, and a plugin that both rules resolve
DocFive ==
    << Elem("Ableton", "", <<>>, <<2, 3, 5>>),
       Elem("Path", "PlugCo/Widget.dll", <<>>, <<>>),
       Elem("BrowserContentPath", "", <<>>, <<4>>),
       Elem("Value", "query:Plugins#VST:Acme%20Audio:Widget", <<>>, <<>>),
       Elem("Path", "Togu/TAL-Chorus.dll", <<>>, <<>>) >>

\* project 6: a project with no plugin at all
DocSix == << Elem("Ableton", "", <<>>, <<>>) >>

\* Every name a directory walk can yield; "notes.txt" is no project file.
DirEntries ==
    {"Live/one.als", "Live/two.als", "Live/bad.als", "Live/four.als",
     "Live/five.ALS", "Live/six.als", "Live/notes.txt"}

\* The entries find_als_files keeps: lowercase name ending in '.als'.
IsAls(file) == EndsWith(Lower(file), ".als")

ProjectFiles == {file \in DirEntries : IsAls(file)}

\* os.name of the interpreters the tool runs under.
OsNames == {"posix", "nt"}

\* Whether gzip.open(...).read() or ET.fromstring raises for the file.
Corrupt(file_path) == file_path = "Live/bad.als"

\* root.iter() of the parsed document.
Document(file_path) ==
    CASE file_path = "Live/one.als" -> DocOne
      [] file_path = "Live/two.als" -> DocTwo
      [] file_path = "Live/four.als" -> DocFour
      [] file_path = "Live/five.ALS" -> DocFive
      [] OTHER -> DocSix

(***************************************************************************)
(* parse_als_file.  The walk carries w = [found, local]: vsts_found and    *)
(* local_manufacturers.                                                    *)
(***************************************************************************)
\* Lines 111-118 and 123-130: one DLL path, from element text or attribute.
AddDllPath(os, w, raw) ==
    LET path == Strip(raw)
        dll_name == BasenameOn(os, path)
    IN  IF dll_name # "" /\ ~InList(dll_name, w.found)
        THEN LET manufacturer == extract_manufacturer_from_path(path)
             IN  [found |-> Append(w.found, dll_name),
                  local |-> IF manufacturer # "" /\ dll_name \notin DOMAIN w.local
                            THEN Put(w.local, dll_name, manufacturer)
                            ELSE w.local]
        ELSE w

\* Line 110: if elem.text and '.dll' in elem.text.lower()
TextStep(os, w, elem) ==
    IF elem.text # "" /\ Contains(Lower(elem.text), ".dll")
    THEN AddDllPath(os, w, elem.text)
    ELSE w

RECURSIVE AttribStep(_, _, _, _)
\* Lines 121-130: for attr_name, attr_value in elem.attrib.items()
AttribStep(os, w, attrib, k) ==
    IF k > Len(attrib) THEN w
    ELSE LET attr_value == attrib[k][2]
             w2 == IF attr_value # "" /\ Contains(Lower(attr_value), ".dll")
                   THEN AddDllPath(os, w, attr_value)
                   ELSE w
         IN  AttribStep(os, w2, attrib, k + 1)

\* elem.find('Value'): the first immediate child with that tag, 0 for None.
FindChild(doc, elem, tag) ==
    LET hits == {k \in 1..Len(elem.children) : doc[elem.children[k]].tag = tag}
    IN  IF hits = {} THEN 0
        ELSE elem.children[CHOOSE k \in hits : \A h \in hits : k <= h]

RECURSIVE AssociateFromOneWay(_, _, _, _, _)
\* Mutant of AssociateFrom: only "plugin_name.lower() in vst.lower()" is
\* tested.
AssociateFromOneWay(found, local, manufacturer, plugin_name, k) ==
    IF k > Len(found) THEN local
    ELSE LET vst == found[k]
             hit == Contains(Lower(vst), Lower(plugin_name))
         IN  AssociateFromOneWay(found,
                                 IF hit THEN Put(local, vst, manufacturer)
                                 ELSE local,
                                 manufacturer, plugin_name, k + 1)

RECURSIVE AssociateFrom(_, _, _, _, _)
\* Lines 143-145: for vst in vsts_found: substring match in either direction
AssociateFrom(found, local, manufacturer, plugin_name, k) ==
    IF k > Len(found) THEN local
    ELSE LET vst == found[k]
             hit == \/ Contains(Lower(vst), Lower(plugin_name))
                    \/ Contains(Lower(plugin_name), Lower(vst))
         IN  AssociateFrom(found,
                           IF hit THEN Put(local, vst, manufacturer) ELSE local,
                           manufacturer, plugin_name, k + 1)

\* Lines 133-145: the BrowserContentPath element
BrowserStep(w, doc, elem) ==
    IF elem.tag # "BrowserContentPath" THEN w
    ELSE LET v == FindChild(doc, elem, "Value")
         IN  IF v = 0 \/ doc[v].text = "" THEN w
             ELSE LET browser_path == doc[v].text
                      parts == Split(browser_path, ":")
                  IN  IF /\ Contains(browser_path, "Plugins#VST")
                         /\ Contains(browser_path, ":")
                         /\ Len(parts) >= 4
                      THEN [w EXCEPT !.local =
                               AssociateFrom(w.found, w.local,
                                             Replace(parts[3], "%20", " "),
                                             Replace(parts[4], "%20", " "), 1)]
                      ELSE w

\* elem.get(name), "" for None
AttribGet(attrib, name) ==
    LET hits == {i \in 1..Len(attrib) : attrib[i][1] = name}
    IN  IF hits = {} THEN "" ELSE attrib[CHOOSE i \in hits : TRUE][2]

RECURSIVE ChildNames(_, _, _, _)
\* Lines 155-159: for child in elem
ChildNames(found, doc, children, k) ==
    IF k > Len(children) THEN found
    ELSE LET text == doc[children[k]].text
             plugin_name == Strip(text)
             take == /\ text # "" /\ ~EndsWith(text, ".dll") /\ Len(text) < 100
                     /\ plugin_name # "" /\ ~InList(plugin_name, found)
         IN  ChildNames(IF take THEN Append(found, plugin_name) ELSE found,
                        doc, children, k + 1)

\* Lines 148-159: the plugin-descriptor elements
PluginInfoStep(w, doc, elem) ==
    IF elem.tag \notin {"VstPluginInfo", "Vst3PluginInfo", "PluginDesc"} THEN w
    ELSE LET name == AttribGet(elem.attrib, "Name")
             f1 == IF name # "" /\ ~InList(name, w.found) /\ ~EndsWith(name, ".dll")
                   THEN Append(w.found, name)
                   ELSE w.found
         IN  [w EXCEPT !.found = ChildNames(f1, doc, elem.children, 1)]

\* One iteration of for elem in root.iter(), lines 108-159.
ElemStep(os, w, doc, k) ==
    LET elem == doc[k]
        w1 == TextStep(os, w, elem)
        w2 == AttribStep(os, w1, elem.attrib, 1)
        w3 == BrowserStep(w2, doc, elem)
    IN  PluginInfoStep(w3, doc, elem)

RECURSIVE WalkFrom(_, _, _, _)
WalkFrom(os, w, doc, k) ==
    IF k > Len(doc) THEN w
    ELSE WalkFrom(os, ElemStep(os, w, doc, k), doc, k + 1)

\* Lines 99-159: vsts_found and local_manufacturers when the walk ends; an
\* exception of gzip or of the XML parser leaves both as initialised.
WalkOn(os, file_path) ==
    IF Corrupt(file_path) THEN [found |-> <<>>, local |-> EmptyMap]
    ELSE WalkFrom(os, [found |-> <<>>, local |-> EmptyMap],
                  Document(file_path), 1)

\* The walk of every project file under either os.name, computed once.
WalkTable ==
    [os \in OsNames |-> [file_path \in ProjectFiles |-> WalkOn(os, file_path)]]

Walk(file_path) == WalkTable[os_name][file_path]

\* Mutant of ResolveManufacturer: the file-local table is not consulted.
ResolveManufacturerNoLocal(local, vst) ==
    IF get_manufacturer_from_plugin_name(vst) # ""
    THEN get_manufacturer_from_plugin_name(vst)
    ELSE "Unknown"

\* Mutant of ResolveManufacturer: the name pattern is tried before the
\* file-local table.
ResolveManufacturerNameFirst(local, vst) ==
    IF get_manufacturer_from_plugin_name(vst) # ""
    THEN get_manufacturer_from_plugin_name(vst)
    ELSE IF Get(local, vst) # "" THEN Get(local, vst) ELSE "Unknown"

\* Lines 165-169: local_manufacturers.get(vst) or Rule B or "Unknown"
ResolveManufacturer(local, vst) ==
    IF Get(local, vst) # "" THEN Get(local, vst)
    ELSE IF get_manufacturer_from_plugin_name(vst) # ""
         THEN get_manufacturer_from_plugin_name(vst)
         ELSE "Unknown"

RECURSIVE CommitFromOverwrite(_, _, _, _)
\* Mutant of CommitFrom: the test "vst not in self.vst_manufacturers" is
\* missing, so every parse writes its own resolution.
CommitFromOverwrite(manufacturers, found, local, k) ==
    IF k > Len(found) THEN manufacturers
    ELSE CommitFromOverwrite(
             Put(manufacturers, found[k], ResolveManufacturer(local, found[k])),
             found, local, k + 1)

RECURSIVE CommitFromReplaceUnknown(_, _, _, _)
\* Mutant of CommitFrom: an entry holding "Unknown" counts as missing and is
\* resolved again.
CommitFromReplaceUnknown(manufacturers, found, local, k) ==
    IF k > Len(found) THEN manufacturers
    ELSE LET vst == found[k]
         IN  CommitFromReplaceUnknown(
                 IF Get(manufacturers, vst) \in {"", "Unknown"}
                 THEN Put(manufacturers, vst, ResolveManufacturer(local, vst))
                 ELSE manufacturers,
                 found, local, k + 1)

RECURSIVE CommitFrom(_, _, _, _)
\* Lines 162-170: for vst in vsts_found: if vst not in self.vst_manufacturers
CommitFrom(manufacturers, found, local, k) ==
    IF k > Len(found) THEN manufacturers
    ELSE LET vst == found[k]
         IN  CommitFrom(IF vst \notin DOMAIN manufacturers
                        THEN Put(manufacturers, vst, ResolveManufacturer(local, vst))
                        ELSE manufacturers,
                        found, local, k + 1)

\* self.vst_manufacturers after parse_als_file(file_path); the commit loop
\* is inside the try block, after the walk.
ParseManufacturers(manufacturers, file_path) ==
    IF Corrupt(file_path) THEN manufacturers
    ELSE LET w == Walk(file_path)
         IN  CommitFrom(manufacturers, w.found, w.local, 1)

\* set(vsts_found), line 175
ParseSet(file_path) == Range(Walk(file_path).found)

\* The lists list(S) can be for a set S: its elements once each, in any order.
ListsOf(S) ==
    {l \in [1..Cardinality(S) -> S] : \A i, j \in DOMAIN l : i # j => l[i] # l[j]}

\* What parse_als_file can return: list(set(vsts_found)), line 175.
ParseReturn(file_path) == ListsOf(ParseSet(file_path))

(***************************************************************************)
(* find_als_files.                                                         *)
(***************************************************************************)
\* What os.walk can yield for a directory: its entries, in any order.
Listings ==
    UNION {{l \in [1..n -> DirEntries] :
               \A i, j \in 1..n : i # j => l[i] # l[j]} : n \in 0..MaxFiles}

\* find_als_files: the entries whose lowercase name ends in '.als', in walk order
find_als_files(entries) == SelectSeq(entries, IsAls)

\* Every list find_als_files can return.
Discoveries == {find_als_files(entries) : entries \in Listings}

(***************************************************************************)
(* scan_directory.                                                         *)
(***************************************************************************)
RECURSIVE CountFromAssign(_, _, _)
\* Mutant of CountFrom: "= 1" in place of "+= 1".
CountFromAssign(usage, vsts, k) ==
    IF k > Len(vsts) THEN usage
    ELSE CountFromAssign(Put(usage, vsts[k], 1), vsts, k + 1)

RECURSIVE CountFrom(_, _, _)
\* Lines 206-207: for vst in vsts: self.vst_usage[vst] += 1
CountFrom(usage, vsts, k) ==
    IF k > Len(vsts) THEN usage
    ELSE CountFrom(Put(usage, vsts[k], Get0(usage, vsts[k]) + 1), vsts, k + 1)

\* Mutant of Cleared: the clear() call is missing.
ClearedNot(d) == d

\* Lines 184-185: dict.clear()
Cleared(d) == EmptyMap

\* Mutant of update_progress: the newest message is put in front.
update_progress_front(messages, message) ==
    IF progress_callback THEN <<message>> \o messages ELSE messages

\* update_progress, lines 177-180: the hook is called when it is set.
\* messages is what the hook has received so far.
update_progress(messages, message) ==
    IF progress_callback THEN Append(messages, message) ELSE messages

\* Line 188
FindingMessage == <<"Finding .als files...">>

\* Line 193
NoFilesMessage == <<"No .als files found in directory">>

\* Line 196: f"Found {self.total_files} .als files. Starting scan..."
FoundMessage(n) == <<"Found ", n, " .als files. Starting scan...">>

\* Line 200: f"Processing: {self.current_file}"
ProcessingMessage(file) == <<"Processing: ", file>>

\* Line 211: f"Scan complete! Found {len(self.vst_usage)} unique VSTs"
CompleteMessage(n) == <<"Scan complete! Found ", n, " unique VSTs">>

\* Lines 192-196: the message that follows discovery.
DiscoveryMessage(files) ==
    IF files = <<>> THEN NoFilesMessage ELSE FoundMessage(Len(files))

\* Lines 184-196: clear, discover, and return at once when nothing was found.
ScanStart ==
    /\ pc = "idle"
    /\ scans < MaxScans
    /\ \E files \in Discoveries :
          /\ als_files' = files
          /\ total_files' = Len(files)
          /\ pc' = IF files = <<>> THEN "idle" ELSE "scanning"
          /\ progress' = update_progress(update_progress(<<>>, FindingMessage),
                                         DiscoveryMessage(files))
    /\ vst_usage' = Cleared(vst_usage)
    /\ project_vsts' = Cleared(project_vsts)
    /\ processed_files' = 0
    /\ file_index' = 0
    /\ scans' = scans + 1
    /\ start_manufacturers' = vst_manufacturers
    /\ report' = <<>>
    /\ UNCHANGED <<os_name, vst_manufacturers, current_file, progress_callback,
                   path_arg, rule_a, threads, walk, gui>>

\* Mutant of Aggregate: the guard "if vsts:" is missing.
AggregateAlways(file_path, vsts) ==
    /\ project_vsts' = Put(project_vsts, file_path, vsts)
    /\ vst_usage' = CountFrom(vst_usage, vsts, 1)

\* Lines 204-207: if vsts: record the list and count each reference once.
Aggregate(file_path, vsts) ==
    IF vsts # <<>>
    THEN /\ project_vsts' = Put(project_vsts, file_path, vsts)
         /\ vst_usage' = CountFrom(vst_usage, vsts, 1)
    ELSE UNCHANGED <<project_vsts, vst_usage>>

\* Mutant of ProcessedAfter: the increment sits inside "if vsts:".
ProcessedAfterFound(vsts) ==
    IF vsts # <<>> THEN processed_files + 1 ELSE processed_files

\* Line 209: self.processed_files += 1, whatever the file held.
ProcessedAfter(vsts) == processed_files + 1

\* Lines 198-200: the loop takes the next file and announces it.
AnnounceFile ==
    /\ pc = "scanning"
    /\ file_index < Len(als_files)
    /\ current_file' = basename(als_files[file_index + 1])
    /\ progress' = update_progress(progress,
                                   ProcessingMessage(current_file'))
    /\ pc' = "parsing"
    /\ UNCHANGED <<os_name, vst_usage, project_vsts, vst_manufacturers,
                   processed_files, total_files, als_files, file_index, scans,
                   start_manufacturers, report, progress_callback, path_arg,
                   rule_a, threads, walk, gui>>

\* Lines 202-209: the announced file is parsed and aggregated.
ProcessFile ==
    /\ pc = "parsing"
    /\ LET file_path == als_files[file_index + 1]
       IN  /\ vst_manufacturers' = ParseManufacturers(vst_manufacturers, file_path)
           /\ \E vsts \in ParseReturn(file_path) :
                 /\ Aggregate(file_path, vsts)
                 /\ processed_files' = ProcessedAfter(vsts)
    /\ file_index' = file_index + 1
    /\ pc' = "scanning"
    /\ UNCHANGED <<os_name, total_files, current_file, als_files, scans,
                   start_manufacturers, report, progress_callback, progress,
                   path_arg, rule_a, threads, walk, gui>>

\* Line 211: the loop is exhausted; the summary is sent and scan_directory
\* returns.
ScanFinish ==
    /\ pc = "scanning"
    /\ file_index = Len(als_files)
    /\ progress' = update_progress(progress,
                                   CompleteMessage(Cardinality(DOMAIN vst_usage)))
    /\ pc' = "idle"
    /\ UNCHANGED <<os_name, vst_usage, project_vsts, vst_manufacturers,
                   processed_files, total_files, current_file, als_files,
                   file_index, scans, start_manufacturers, report,
                   progress_callback, path_arg, rule_a, threads, walk, gui>>

(***************************************************************************)
(* generate_report.  The text is kept as the list of its parts, each       *)
(* [section, rows]; the order of the rows inside one part and the column   *)
(* widths are not modelled, nor is the timestamp line.                     *)
(***************************************************************************)
ManufacturerOf(vst) ==
    IF vst \in DOMAIN vst_manufacturers THEN vst_manufacturers[vst] ELSE "Unknown"

\* Lines 216-220, written whatever the counter holds.
ReportHeader ==
    << [section |-> "ABLETON VST AUDIT REPORT",
        rows |-> {<<"Total Projects Scanned", Cardinality(DOMAIN project_vsts)>>,
                  <<"Total Unique VSTs Found", Cardinality(DOMAIN vst_usage)>>}] >>

\* Lines 223-256
ReportSections ==
    << [section |-> "VST USAGE SUMMARY (by frequency)",
        rows |-> {<<vst, vst_usage[vst], ManufacturerOf(vst)>> :
                     vst \in DOMAIN vst_usage}],
       [section |-> "VSTS BY MANUFACTURER",
        rows |-> {<<ManufacturerOf(vst), vst, vst_usage[vst]>> :
                     vst \in DOMAIN vst_usage}],
       [section |-> "ALPHABETICAL VST LIST",
        rows |-> {<<vst, ManufacturerOf(vst)>> : vst \in DOMAIN vst_usage}],
       [section |-> "PROJECT BREAKDOWN",
        rows |-> UNION {{<<basename(project_path), vst, ManufacturerOf(vst)>> :
                            vst \in Range(project_vsts[project_path])} :
                        project_path \in DOMAIN project_vsts}] >>

\* Line 258
ReportNoPlugins ==
    << [section |-> "No VST plugins found in the scanned projects.",
        rows |-> {}] >>

\* Mutant of RenderReport: the sections are written without the test
\* "if self.vst_usage".
RenderReportAlways == ReportHeader \o ReportSections

\* Lines 215-258
RenderReport ==
    ReportHeader \o (IF DOMAIN vst_usage # {} THEN ReportSections
                     ELSE ReportNoPlugins)

\* generate_report(output_file), called between scans.
GenerateReport ==
    /\ pc = "idle"
    /\ report' = RenderReport
    /\ UNCHANGED <<os_name, vst_usage, project_vsts, vst_manufacturers,
                   processed_files, total_files, current_file, als_files,
                   file_index, pc, scans, start_manufacturers,
                   progress_callback, progress, path_arg, rule_a, threads, walk, gui>>

(***************************************************************************)
(* The auditor: construction, then scans and reports in any sequence.      *)
(***************************************************************************)
\* The callers of the concurrent specification.
Threads == {"t1", "t2"}

\* A caller that has not entered scan_directory: its position and the
\* locals of the call (als_files, the loop index, vsts, the index into vsts
\* and the value loaded by "+= 1").
ThreadStart ==
    [pc |-> "call", als_files |-> <<>>, i |-> 0, vsts |-> <<>>, k |-> 0,
     tmp |-> 0]

\* No call was made: started lists the callers in the order they entered
\* scan_directory, overlapped records that one entered while another call
\* was running.
NoCalls ==
    [run |-> [t \in Threads |-> ThreadStart], started |-> <<>>,
     overlapped |-> FALSE]

\* No document is being walked.
NoWalk == [doc |-> <<>>, k |-> 0, found |-> <<>>, local |-> EmptyMap]

\* The window after setup_gui, lines 272-320: the scan button is enabled,
\* the save button disabled, no worker thread, no callback pending.
NoGui ==
    [scan_button |-> "normal", save_button |-> "disabled", workers |-> 0,
     call |-> 0, after |-> <<>>, reading |-> ""]

\* __init__, lines 21-28; progress_callback is None after construction and
\* the caller may assign a hook before the first scan (lines 264 and 451).
Init ==
    /\ os_name \in OsNames
    /\ vst_usage = EmptyMap
    /\ project_vsts = EmptyMap
    /\ vst_manufacturers = EmptyMap
    /\ processed_files = 0
    /\ total_files = 0
    /\ current_file = ""
    /\ als_files = <<>>
    /\ file_index = 0
    /\ pc = "idle"
    /\ scans = 0
    /\ start_manufacturers = EmptyMap
    /\ report = <<>>
    /\ progress_callback \in BOOLEAN
    /\ progress = <<>>
    /\ path_arg = ""
    /\ rule_a = [done |-> FALSE, result |-> ""]
    /\ threads = NoCalls
    /\ walk = NoWalk
    /\ gui = NoGui

Next ==
    ScanStart \/ AnnounceFile \/ ProcessFile \/ ScanFinish \/ GenerateReport

Spec == Init /\ [][Next]_vars

(***************************************************************************)
(* Rule A on its own: extract_manufacturer_from_path applied to one path.  *)
(***************************************************************************)
\* Path segments: a vendor folder, stoplisted folders, plugin files, a short
\* folder, folders padded with blanks, and the empty segment.
RuleASegments ==
    {"SomeVendor", "vst", "reverb", "Plugin.dll", "x.DLL", "ab", " Acme ",
     " VST ", ""}

RECURSIVE JoinWith(_, _)
\* sep.join(parts)
JoinWith(parts, sep) ==
    IF Len(parts) = 0 THEN ""
    ELSE IF Len(parts) = 1 THEN parts[1]
         ELSE parts[1] \o sep \o JoinWith(Tail(parts), sep)

RuleAPaths ==
    {"", ".../SomeVendor/vst/reverb/Plugin.dll"} \cup
    UNION {{JoinWith(parts, sep) : parts \in [1..n -> RuleASegments],
                                   sep \in {"/", "\\"}} : n \in 1..MaxSegs}

InitRuleA ==
    /\ os_name \in OsNames
    /\ vst_usage = EmptyMap
    /\ project_vsts = EmptyMap
    /\ vst_manufacturers = EmptyMap
    /\ processed_files = 0
    /\ total_files = 0
    /\ current_file = ""
    /\ als_files = <<>>
    /\ file_index = 0
    /\ pc = "idle"
    /\ scans = 0
    /\ start_manufacturers = EmptyMap
    /\ report = <<>>
    /\ progress_callback = FALSE
    /\ progress = <<>>
    /\ path_arg \in RuleAPaths
    /\ rule_a = [done |-> FALSE, result |-> ""]
    /\ threads = NoCalls
    /\ walk = NoWalk
    /\ gui = NoGui

\* The call extract_manufacturer_from_path(dll_path).
ExtractManufacturer ==
    /\ ~rule_a.done
    /\ rule_a' = [done |-> TRUE,
                  result |-> extract_manufacturer_from_path(path_arg)]
    /\ UNCHANGED <<os_name, vst_usage, project_vsts, vst_manufacturers,
                   processed_files, total_files, current_file, als_files,
                   file_index, pc, scans, start_manufacturers, report,
                   progress_callback, progress, path_arg, threads, walk, gui>>

NextRuleA == ExtractManufacturer

SpecRuleA == InitRuleA /\ [][NextRuleA]_vars

(***************************************************************************)
(* Two callers inside scan_directory of one auditor.  The code takes no    *)
(* lock, so the callers interleave between statements, and inside          *)
(* "x += 1" between the read and the write.  The hook is None.             *)
(***************************************************************************)
MaxThreadFiles == 1

\* The project files of the directories the two callers scan.
ThreadFiles == {"Live/one.als", "Live/two.als"}

\* What find_als_files can return to a caller.
ThreadDiscoveries ==
    {files \in Discoveries :
        Len(files) <= MaxThreadFiles /\ Range(files) \subseteq ThreadFiles}

\* The variables no step of a concurrent caller touches.
single_call_vars ==
    <<os_name, als_files, file_index, pc, scans, start_manufacturers, report,
      progress_callback, progress, path_arg, rule_a, walk, gui>>

\* The caller is inside scan_directory.
Running(t) == threads.run[t].pc \notin {"call", "done"}

\* The file the caller's loop is at.
FileOf(t) == threads.run[t].als_files[threads.run[t].i + 1]

\* Line 184: self.vst_usage.clear(), the first statement of the call.
ClearUsage(t) ==
    /\ threads.run[t].pc = "call"
    /\ vst_usage' = Cleared(vst_usage)
    /\ threads' = [run |-> [threads.run EXCEPT ![t].pc = "clear_projects"],
                   started |-> Append(threads.started, t),
                   overlapped |-> \/ threads.overlapped
                                  \/ \E u \in Threads \ {t} : Running(u)]
    /\ UNCHANGED <<project_vsts, vst_manufacturers, processed_files,
                   total_files, current_file, single_call_vars>>

\* Line 185: self.project_vsts.clear()
ClearProjects(t) ==
    /\ threads.run[t].pc = "clear_projects"
    /\ project_vsts' = Cleared(project_vsts)
    /\ threads' = [threads EXCEPT !.run[t].pc = "reset"]
    /\ UNCHANGED <<vst_usage, vst_manufacturers, processed_files, total_files,
                   current_file, single_call_vars>>

\* Line 186: self.processed_files = 0
ResetProcessed(t) ==
    /\ threads.run[t].pc = "reset"
    /\ processed_files' = 0
    /\ threads' = [threads EXCEPT !.run[t].pc = "discover"]
    /\ UNCHANGED <<vst_usage, project_vsts, vst_manufacturers, total_files,
                   current_file, single_call_vars>>

\* Lines 188-196: discovery; the call returns when nothing was found.
Discover(t) ==
    /\ threads.run[t].pc = "discover"
    /\ \E files \in ThreadDiscoveries :
          /\ total_files' = Len(files)
          /\ threads' = [threads EXCEPT
                            !.run[t].als_files = files,
                            !.run[t].i = 0,
                            !.run[t].pc = IF files = <<>> THEN "done" ELSE "loop"]
    /\ UNCHANGED <<vst_usage, project_vsts, vst_manufacturers, processed_files,
                   current_file, single_call_vars>>

\* Lines 198-199: the loop takes the next file; line 211 when none is left.
TakeFile(t) ==
    /\ threads.run[t].pc = "loop"
    /\ IF threads.run[t].i < Len(threads.run[t].als_files)
       THEN /\ current_file' = basename(FileOf(t))
            /\ threads' = [threads EXCEPT !.run[t].pc = "walk"]
       ELSE /\ threads' = [threads EXCEPT !.run[t].pc = "done"]
            /\ UNCHANGED current_file
    /\ UNCHANGED <<vst_usage, project_vsts, vst_manufacturers, processed_files,
                   total_files, single_call_vars>>

\* Lines 99-159: the walk works on locals only; a failing file goes to the
\* return statement.
WalkFile(t) ==
    /\ threads.run[t].pc = "walk"
    /\ threads' = [threads EXCEPT
                      !.run[t].k = 1,
                      !.run[t].pc = IF Corrupt(FileOf(t)) THEN "return"
                                    ELSE "commit_test"]
    /\ UNCHANGED <<vst_usage, project_vsts, vst_manufacturers, processed_files,
                   total_files, current_file, single_call_vars>>

\* Lines 162-163: for vst in vsts_found: if vst not in self.vst_manufacturers
CommitTest(t) ==
    /\ threads.run[t].pc = "commit_test"
    /\ LET found == Walk(FileOf(t)).found
           k == threads.run[t].k
       IN  threads' =
               IF k > Len(found)
               THEN [threads EXCEPT !.run[t].pc = "return"]
               ELSE IF found[k] \notin DOMAIN vst_manufacturers
                    THEN [threads EXCEPT !.run[t].pc = "commit_write"]
                    ELSE [threads EXCEPT !.run[t].k = k + 1]
    /\ UNCHANGED <<vst_usage, project_vsts, vst_manufacturers, processed_files,
                   total_files, current_file, single_call_vars>>

\* Lines 165-170: self.vst_manufacturers[vst] = manufacturer
CommitWrite(t) ==
    /\ threads.run[t].pc = "commit_write"
    /\ LET w == Walk(FileOf(t))
           vst == w.found[threads.run[t].k]
       IN  vst_manufacturers' =
               Put(vst_manufacturers, vst, ResolveManufacturer(w.local, vst))
    /\ threads' = [threads EXCEPT !.run[t].k = @ + 1,
                                  !.run[t].pc = "commit_test"]
    /\ UNCHANGED <<vst_usage, project_vsts, processed_files, total_files,
                   current_file, single_call_vars>>

\* Lines 175 and 202: vsts = list(set(vsts_found))
ReturnList(t) ==
    /\ threads.run[t].pc = "return"
    /\ \E vsts \in ParseReturn(FileOf(t)) :
          threads' = [threads EXCEPT !.run[t].vsts = vsts,
                                     !.run[t].pc = "register"]
    /\ UNCHANGED <<vst_usage, project_vsts, vst_manufacturers, processed_files,
                   total_files, current_file, single_call_vars>>

\* Lines 204-205: if vsts: self.project_vsts[file_path] = vsts
Register(t) ==
    /\ threads.run[t].pc = "register"
    /\ IF threads.run[t].vsts # <<>>
       THEN /\ project_vsts' = Put(project_vsts, FileOf(t), threads.run[t].vsts)
            /\ threads' = [threads EXCEPT !.run[t].k = 1,
                                          !.run[t].pc = "load"]
       ELSE /\ threads' = [threads EXCEPT !.run[t].pc = "load_processed"]
            /\ UNCHANGED project_vsts
    /\ UNCHANGED <<vst_usage, vst_manufacturers, processed_files, total_files,
                   current_file, single_call_vars>>

\* Line 207, the read of self.vst_usage[vst] += 1; a Counter gives 0 for a
\* missing key.
LoadCount(t) ==
    /\ threads.run[t].pc = "load"
    /\ threads' = [threads EXCEPT
                      !.run[t].tmp = Get0(vst_usage,
                                          threads.run[t].vsts[threads.run[t].k]),
                      !.run[t].pc = "store"]
    /\ UNCHANGED <<vst_usage, project_vsts, vst_manufacturers, processed_files,
                   total_files, current_file, single_call_vars>>

\* Mutant of CountStored: the write adds 2.
CountStoredTwice(usage, vst, loaded) == Put(usage, vst, loaded + 2)

\* Line 207, the write of self.vst_usage[vst] += 1
CountStored(usage, vst, loaded) == Put(usage, vst, loaded + 1)

StoreCount(t) ==
    /\ threads.run[t].pc = "store"
    /\ vst_usage' = CountStored(vst_usage,
                                threads.run[t].vsts[threads.run[t].k],
                                threads.run[t].tmp)
    /\ threads' = IF threads.run[t].k < Len(threads.run[t].vsts)
                  THEN [threads EXCEPT !.run[t].k = @ + 1,
                                       !.run[t].pc = "load"]
                  ELSE [threads EXCEPT !.run[t].pc = "load_processed"]
    /\ UNCHANGED <<project_vsts, vst_manufacturers, processed_files,
                   total_files, current_file, single_call_vars>>

\* Line 209, the read of self.processed_files += 1
LoadProcessed(t) ==
    /\ threads.run[t].pc = "load_processed"
    /\ threads' = [threads EXCEPT !.run[t].tmp = processed_files,
                                  !.run[t].pc = "store_processed"]
    /\ UNCHANGED <<vst_usage, project_vsts, vst_manufacturers, processed_files,
                   total_files, current_file, single_call_vars>>

\* Line 209, the write of self.processed_files += 1; the loop goes on.
StoreProcessed(t) ==
    /\ threads.run[t].pc = "store_processed"
    /\ processed_files' = threads.run[t].tmp + 1
    /\ threads' = [threads EXCEPT !.run[t].i = @ + 1,
                                  !.run[t].pc = "loop"]
    /\ UNCHANGED <<vst_usage, project_vsts, vst_manufacturers, total_files,
                   current_file, single_call_vars>>

\* os.name is the only choice; the auditor is fresh and no hook is set.
InitThreads ==
    /\ os_name \in OsNames
    /\ vst_usage = EmptyMap
    /\ project_vsts = EmptyMap
    /\ vst_manufacturers = EmptyMap
    /\ processed_files = 0
    /\ total_files = 0
    /\ current_file = ""
    /\ als_files = <<>>
    /\ file_index = 0
    /\ pc = "idle"
    /\ scans = 0
    /\ start_manufacturers = EmptyMap
    /\ report = <<>>
    /\ progress_callback = FALSE
    /\ progress = <<>>
    /\ path_arg = ""
    /\ rule_a = [done |-> FALSE, result |-> ""]
    /\ threads = NoCalls
    /\ walk = NoWalk
    /\ gui = NoGui

NextThreads ==
    \E t \in Threads :
        \/ ClearUsage(t)
        \/ ClearProjects(t)
        \/ ResetProcessed(t)
        \/ Discover(t)
        \/ TakeFile(t)
        \/ WalkFile(t)
        \/ CommitTest(t)
        \/ CommitWrite(t)
        \/ ReturnList(t)
        \/ Register(t)
        \/ LoadCount(t)
        \/ StoreCount(t)
        \/ LoadProcessed(t)
        \/ StoreProcessed(t)

SpecThreads == InitThreads /\ [][NextThreads]_vars

(***************************************************************************)
(* The walk of parse_als_file on its own, one element of root.iter() per   *)
(* step, over documents put together from a few kinds of element.          *)
(***************************************************************************)
MaxItems == 3

Item(kind, value) == [kind |-> kind, value |-> value]

\* What a project file can hold below its root: DLL paths as element text
\* or as attribute value (with a vendor folder, without one, Windows style),
\* browser content paths (with a manufacturer and without), and a plugin
\* descriptor carrying a bare name.
WalkItems ==
    {Item("text", "PlugCo/Widget.dll"),
     Item("text", "Widget.dll"),
     Item("attr", "D:\\VST\\OtherCo\\Widget.dll"),
     Item("text", "Togu/TAL-Chorus.dll"),
     Item("browser", "query:Plugins#VST:Acme%20Audio:WIDGET"),
     Item("browser", "query:Plugins#VST::Widget"),
     Item("info", "Wid")}

\* The elements of one item, the document so far having n elements.
ElemsOf(item, n) ==
    CASE item.kind = "text" -> << Elem("Path", item.value, <<>>, <<>>) >>
      [] item.kind = "attr" ->
             << Elem("Path", "", << <<"Value", item.value>> >>, <<>>) >>
      [] item.kind = "browser" ->
             << Elem("BrowserContentPath", "", <<>>, <<n + 2>>),
                Elem("Value", item.value, <<>>, <<>>) >>
      [] OTHER ->
             << Elem("VstPluginInfo", "", << <<"Name", item.value>> >>, <<>>) >>

RECURSIVE AppendItems(_, _)
AppendItems(doc, items) ==
    IF items = <<>> THEN doc
    ELSE AppendItems(doc \o ElemsOf(Head(items), Len(doc)), Tail(items))

\* root.iter() of the document holding the items in this order; the root's
\* children are the elements that are no Value of a browser content path.
BuildDoc(items) ==
    LET below == AppendItems(<< Elem("Ableton", "", <<>>, <<>>) >>, items)
        TopLevel(k) == k > 1 /\ below[k].tag # "Value"
    IN  [below EXCEPT ![1].children =
            SelectSeq([k \in 1..Len(below) |-> k], TopLevel)]

WalkDocuments ==
    UNION {{BuildDoc(items) : items \in [1..n -> WalkItems]} : n \in 0..MaxItems}

InitWalk ==
    /\ os_name \in OsNames
    /\ vst_usage = EmptyMap
    /\ project_vsts = EmptyMap
    /\ vst_manufacturers = EmptyMap
    /\ processed_files = 0
    /\ total_files = 0
    /\ current_file = ""
    /\ als_files = <<>>
    /\ file_index = 0
    /\ pc = "idle"
    /\ scans = 0
    /\ start_manufacturers = EmptyMap
    /\ report = <<>>
    /\ progress_callback = FALSE
    /\ progress = <<>>
    /\ path_arg = ""
    /\ rule_a = [done |-> FALSE, result |-> ""]
    /\ threads = NoCalls
    /\ walk \in {[doc |-> doc, k |-> 0, found |-> <<>>, local |-> EmptyMap] :
                    doc \in WalkDocuments}
    /\ gui = NoGui

\* Lines 108-159: the loop body for the next element of root.iter().
WalkElem ==
    /\ walk.k < Len(walk.doc)
    /\ LET w == ElemStep(os_name, [found |-> walk.found, local |-> walk.local],
                         walk.doc, walk.k + 1)
       IN  walk' = [doc |-> walk.doc, k |-> walk.k + 1,
                    found |-> w.found, local |-> w.local]
    /\ UNCHANGED <<os_name, vst_usage, project_vsts, vst_manufacturers,
                   processed_files, total_files, current_file, als_files,
                   file_index, pc, scans, start_manufacturers, report,
                   progress_callback, progress, path_arg, rule_a, threads, gui>>

NextWalk == WalkElem

SpecWalk == InitWalk /\ [][NextWalk]_vars

(***************************************************************************)
(* AbletonVSTGUI.  The foreground thread runs one handler at a time: a     *)
(* button command, or a callback queued with root.after; gui.reading names *)
(* the handler that is reading the auditor's tables, and the dialogs it    *)
(* opens are modal.  The worker thread runs scan_directory, whose steps    *)
(* are the actions of the sequential specification.  The hook is set; the  *)
(* messages are kept in progress, their display is left out.               *)
(***************************************************************************)
\* Mutant of ButtonsAtStart: the scan button is left enabled.
ButtonsAtStartSaveOnly(g) == [g EXCEPT !.save_button = "disabled"]

\* Lines 348-349: both buttons are disabled before the thread is started.
ButtonsAtStart(g) ==
    [g EXCEPT !.scan_button = "disabled", !.save_button = "disabled"]

\* start_scan, lines 336-356, as the command of the scan button; with no
\* directory chosen it returns after an error dialog and changes nothing.
StartScan ==
    /\ gui.scan_button = "normal"
    /\ gui.reading = ""
    /\ scans < MaxScans
    /\ gui' = [ButtonsAtStart(gui) EXCEPT !.workers = @ + 1, !.call = scans]
    /\ UNCHANGED <<os_name, vst_usage, project_vsts, vst_manufacturers,
                   processed_files, total_files, current_file, als_files,
                   file_index, pc, scans, start_manufacturers, report,
                   progress_callback, progress, path_arg, rule_a, threads,
                   walk>>

\* run_scan, line 361: the worker enters scan_directory.
WorkerCalls ==
    /\ gui.workers > 0
    /\ scans = gui.call
    /\ ScanStart

\* The worker inside the loop of scan_directory.
WorkerScans ==
    /\ gui.workers > 0
    /\ scans = gui.call + 1
    /\ (AnnounceFile \/ ProcessFile \/ ScanFinish)

\* run_scan, line 362: scan_directory has returned; scan_complete is queued
\* for the foreground thread and the worker ends.
WorkerReturns ==
    /\ gui.workers > 0
    /\ scans = gui.call + 1
    /\ pc = "idle"
    /\ gui' = [gui EXCEPT !.workers = @ - 1,
                          !.after = Append(@, "scan_complete")]
    /\ UNCHANGED <<os_name, vst_usage, project_vsts, vst_manufacturers,
                   processed_files, total_files, current_file, als_files,
                   file_index, pc, scans, start_manufacturers, report,
                   progress_callback, progress, path_arg, rule_a, threads,
                   walk>>

\* run_scan, lines 363-364: an exception leaves scan_directory inside its
\* loop; scan_error is queued and the worker ends.
WorkerRaises ==
    /\ gui.workers > 0
    /\ scans = gui.call + 1
    /\ pc # "idle"
    /\ pc' = "idle"
    /\ gui' = [gui EXCEPT !.workers = @ - 1,
                          !.after = Append(@, "scan_error")]
    /\ UNCHANGED <<os_name, vst_usage, project_vsts, vst_manufacturers,
                   processed_files, total_files, current_file, als_files,
                   file_index, scans, start_manufacturers, report,
                   progress_callback, progress, path_arg, rule_a, threads,
                   walk>>

\* scan_complete, lines 366-373: both buttons are enabled and
\* display_results starts reading the tables.
ScanComplete ==
    /\ gui.reading = ""
    /\ gui.after # <<>>
    /\ Head(gui.after) = "scan_complete"
    /\ gui' = [gui EXCEPT !.after = Tail(@),
                          !.scan_button = "normal",
                          !.save_button = "normal",
                          !.reading = "display_results"]
    /\ UNCHANGED <<os_name, vst_usage, project_vsts, vst_manufacturers,
                   processed_files, total_files, current_file, als_files,
                   file_index, pc, scans, start_manufacturers, report,
                   progress_callback, progress, path_arg, rule_a, threads,
                   walk>>

\* display_results, lines 381-409, has read the tables and returns.
DisplayResultsEnd ==
    /\ gui.reading = "display_results"
    /\ gui' = [gui EXCEPT !.reading = ""]
    /\ UNCHANGED <<os_name, vst_usage, project_vsts, vst_manufacturers,
                   processed_files, total_files, current_file, als_files,
                   file_index, pc, scans, start_manufacturers, report,
                   progress_callback, progress, path_arg, rule_a, threads,
                   walk>>

\* scan_error, lines 375-379: only the scan button is enabled again.
ScanError ==
    /\ gui.reading = ""
    /\ gui.after # <<>>
    /\ Head(gui.after) = "scan_error"
    /\ gui' = [gui EXCEPT !.after = Tail(@), !.scan_button = "normal"]
    /\ UNCHANGED <<os_name, vst_usage, project_vsts, vst_manufacturers,
                   processed_files, total_files, current_file, als_files,
                   file_index, pc, scans, start_manufacturers, report,
                   progress_callback, progress, path_arg, rule_a, threads,
                   walk>>

\* save_report, line 413, as the command of the save button: it starts by
\* reading self.auditor.vst_usage.
SaveReportBegin ==
    /\ gui.save_button = "normal"
    /\ gui.reading = ""
    /\ gui' = [gui EXCEPT !.reading = "save_report"]
    /\ UNCHANGED <<os_name, vst_usage, project_vsts, vst_manufacturers,
                   processed_files, total_files, current_file, als_files,
                   file_index, pc, scans, start_manufacturers, report,
                   progress_callback, progress, path_arg, rule_a, threads,
                   walk>>

\* save_report, lines 413-428: with an empty counter, or with no file
\* chosen in the dialog, nothing is written; otherwise generate_report.
SaveReportEnd ==
    /\ gui.reading = "save_report"
    /\ gui' = [gui EXCEPT !.reading = ""]
    /\ \/ UNCHANGED report
       \/ DOMAIN vst_usage # {} /\ report' = RenderReport
    /\ UNCHANGED <<os_name, vst_usage, project_vsts, vst_manufacturers,
                   processed_files, total_files, current_file, als_files,
                   file_index, pc, scans, start_manufacturers,
                   progress_callback, progress, path_arg, rule_a, threads,
                   walk>>

\* AbletonVSTGUI.__init__, lines 262-267: a fresh auditor with the hook set.
InitGui ==
    /\ os_name \in OsNames
    /\ vst_usage = EmptyMap
    /\ project_vsts = EmptyMap
    /\ vst_manufacturers = EmptyMap
    /\ processed_files = 0
    /\ total_files = 0
    /\ current_file = ""
    /\ als_files = <<>>
    /\ file_index = 0
    /\ pc = "idle"
    /\ scans = 0
    /\ start_manufacturers = EmptyMap
    /\ report = <<>>
    /\ progress_callback = TRUE
    /\ progress = <<>>
    /\ path_arg = ""
    /\ rule_a = [done |-> FALSE, result |-> ""]
    /\ threads = NoCalls
    /\ walk = NoWalk
    /\ gui = NoGui

NextGui ==
    \/ StartScan
    \/ WorkerCalls
    \/ WorkerScans
    \/ WorkerReturns
    \/ WorkerRaises
    \/ ScanComplete
    \/ DisplayResultsEnd
    \/ ScanError
    \/ SaveReportBegin
    \/ SaveReportEnd

SpecGui == InitGui /\ [][NextGui]_vars

(***************************************************************************)
(* Vocabulary of the properties.                                           *)
(***************************************************************************)
\* scan_directory has returned at least once and no scan is running.
ScanDone == pc = "idle" /\ scans > 0

\* The first scan of a fresh auditor has returned.
FreshScanDone == pc = "idle" /\ scans = 1

PluginTags == {"VstPluginInfo", "Vst3PluginInfo", "PluginDesc"}

IsDllValue(x) == x # "" /\ Contains(Lower(x), ".dll")

\* The places of a document where reference p occurs: element texts and
\* attribute values holding a DLL path whose base name is p, and plugin
\* descriptors naming p, every occurrence counted.
TextSites(os, doc, p) ==
    {k \in 1..Len(doc) :
        IsDllValue(doc[k].text) /\ BasenameOn(os, Strip(doc[k].text)) = p}

AttribSites(os, doc, p) ==
    UNION {{<<k, i>> : i \in {i \in 1..Len(doc[k].attrib) :
                                 /\ IsDllValue(doc[k].attrib[i][2])
                                 /\ BasenameOn(os, Strip(doc[k].attrib[i][2])) = p}} :
           k \in 1..Len(doc)}

NameSites(doc, p) ==
    {k \in 1..Len(doc) :
        /\ doc[k].tag \in PluginTags
        /\ AttribGet(doc[k].attrib, "Name") = p
        /\ ~EndsWith(p, ".dll")}

ChildSites(doc, p) ==
    UNION {{<<k, c>> : c \in {c \in 1..Len(doc[k].children) :
                                LET text == doc[doc[k].children[c]].text
                                IN  /\ doc[k].tag \in PluginTags
                                    /\ text # "" /\ ~EndsWith(text, ".dll")
                                    /\ Len(text) < 100
                                    /\ Strip(text) = p}} :
           k \in 1..Len(doc)}

\* N: how many times reference p occurs inside the project file; a file
\* that cannot be read holds nothing.
OccurrenceCount(os, file_path, p) ==
    IF Corrupt(file_path) \/ p = "" THEN 0
    ELSE LET doc == Document(file_path)
         IN  Cardinality(TextSites(os, doc, p))
             + Cardinality(AttribSites(os, doc, p))
             + Cardinality(NameSites(doc, p))
             + Cardinality(ChildSites(doc, p))

\* Every string that could be a reference of the document.
CandidateRefs(os, file_path) ==
    LET doc == Document(file_path)
        texts == {doc[k].text : k \in 1..Len(doc)}
        values == UNION {{doc[k].attrib[i][2] : i \in 1..Len(doc[k].attrib)} :
                         k \in 1..Len(doc)}
    IN  {BasenameOn(os, Strip(x)) : x \in texts \cup values}
        \cup {Strip(x) : x \in texts} \cup values

\* reference -> N for each project file, under either os.name.
OccurrenceTable ==
    [os \in OsNames |-> [file_path \in ProjectFiles |->
        [p \in {q \in CandidateRefs(os, file_path) :
                   OccurrenceCount(os, file_path, q) > 0} |->
            OccurrenceCount(os, file_path, p)]]]

\* N for the interpreter at hand.
Occurrences(file_path, p) == Get0(OccurrenceTable[os_name][file_path], p)

\* The project files processed so far in which p was found at least once.
FilesContaining(p) ==
    {i \in 1..file_index : Occurrences(als_files[i], p) >= 1}

(***************************************************************************)
(* C1: at every point of a scan, and so when scan_directory has returned,  *)
(* the Usage Counter of every reference equals the number of processed     *)
(* project files in which the reference occurs at least once: a file adds  *)
(* 1 however often (N >= 1) the reference occurs in it, and 0 otherwise.   *)
(***************************************************************************)
C1_UsageCountsFilesOnce ==
    scans > 0 =>
        \A p \in DOMAIN vst_usage
                 \cup UNION {DOMAIN OccurrenceTable[os_name][f] : f \in ProjectFiles} :
            Get0(vst_usage, p) = Cardinality(FilesContaining(p))

\* A finished scan of two files holding the same reference, one of them twice.
C1_Witness ==
    /\ ScanDone
    /\ \E p \in DOMAIN vst_usage :
          /\ vst_usage[p] = 2
          /\ \E i \in 1..Len(als_files) : Occurrences(als_files[i], p) >= 2

(***************************************************************************)
(* C2: the Manufacturer Mapping is first-writer-wins: no step of the       *)
(* auditor, and so no later parse of any file, removes a reference from    *)
(* the mapping or changes the manufacturer committed for it.               *)
(***************************************************************************)
C2_FirstWriterWins ==
    [][\A r \in DOMAIN vst_manufacturers :
          /\ r \in DOMAIN vst_manufacturers'
          /\ vst_manufacturers'[r] = vst_manufacturers[r]]_vars

\* "Unknown" was committed for Widget.dll by the first file, and a later
\* file carrying a path or browser-path manufacturer for it has been parsed.
C2_Witness ==
    /\ file_index = 2
    /\ als_files[1] = "Live/two.als"
    /\ als_files[2] \in {"Live/one.als", "Live/five.ALS"}
    /\ Get(Walk(als_files[2]).local, "Widget.dll") # ""
    /\ Get(vst_manufacturers, "Widget.dll") = "Unknown"

(***************************************************************************)
(* What a scan of a list of files produces from a given mapping, with the  *)
(* registry read as file path -> set of references.                        *)
(***************************************************************************)
RECURSIVE FoldScan(_, _, _)
FoldScan(acc, files, k) ==
    IF k > Len(files) THEN acc
    ELSE LET f == files[k]
             refs == ParseSet(f)
         IN  FoldScan(
                 [usage |-> [p \in DOMAIN acc.usage \cup refs |->
                                Get0(acc.usage, p) + (IF p \in refs THEN 1 ELSE 0)],
                  registry |-> IF refs = {} THEN acc.registry
                               ELSE Put(acc.registry, f, refs),
                  manufacturers |-> ParseManufacturers(acc.manufacturers, f)],
                 files, k + 1)

ScanOutcome(manufacturers, files) ==
    FoldScan([usage |-> EmptyMap, registry |-> EmptyMap,
              manufacturers |-> manufacturers], files, 1)

\* The aggregation state, the registry read as sets.
Aggregated ==
    [usage |-> vst_usage,
     registry |-> [f \in DOMAIN project_vsts |-> Range(project_vsts[f])],
     manufacturers |-> vst_manufacturers]

(***************************************************************************)
(* C3: all four structures are cleared at the start of every scan: when a  *)
(* scan has returned, the Usage Counter, the Project Registry, the         *)
(* Manufacturer Mapping and the processed-file count hold only what the    *)
(* files of that scan produce on a fresh auditor.                          *)
(***************************************************************************)
C3_AllFourCleared ==
    ScanDone =>
        /\ Aggregated = ScanOutcome(EmptyMap, als_files)
        /\ processed_files = Len(als_files)

\* The part of C3 the code keeps: counter, registry and file count.
C3_ThreeCleared ==
    ScanDone =>
        /\ Aggregated.usage = ScanOutcome(EmptyMap, als_files).usage
        /\ Aggregated.registry = ScanOutcome(EmptyMap, als_files).registry
        /\ processed_files = Len(als_files)

(***************************************************************************)
(* C4: a project file that fails to decompress or parse contributes zero   *)
(* plugins and does not abort the batch: when the scan has returned every  *)
(* discovered file was processed (processed_files = total_files), and the  *)
(* Usage Counter, Project Registry and Manufacturer Mapping are what a     *)
(* scan of the batch without the failing files produces from the same      *)
(* starting mapping.                                                       *)
(***************************************************************************)
Readable(file_path) == ~Corrupt(file_path)

C4_FailingFilesSkipped ==
    ScanDone =>
        /\ processed_files = total_files
        /\ total_files = Len(als_files)
        /\ Aggregated = ScanOutcome(start_manufacturers,
                                    SelectSeq(als_files, Readable))

\* A finished scan whose first file failed and whose second file counted.
C4_Witness ==
    /\ ScanDone
    /\ Len(als_files) >= 2
    /\ Corrupt(als_files[1])
    /\ ~Corrupt(als_files[Len(als_files)])
    /\ als_files[Len(als_files)] \in DOMAIN project_vsts
    /\ processed_files = Len(als_files)

(***************************************************************************)
(* C5: round trip on a fresh auditor.  Original statement: a scan of the   *)
(* two files one.als (CompanyX/Widget.dll twice) and two.als (Widget.dll,  *)
(* no path manufacturer) ends with Usage Counter["Widget.dll"] = 2,        *)
(* Manufacturer Mapping["Widget.dll"] = "CompanyX" and exactly 2 registry  *)
(* entries.                                                                *)
(***************************************************************************)
RoundTripOutcome(manufacturer) ==
    /\ Get0(vst_usage, "Widget.dll") = 2
    /\ Get(vst_manufacturers, "Widget.dll") = manufacturer
    /\ Cardinality(DOMAIN project_vsts) = 2

C5_Original ==
    (FreshScanDone /\ Range(als_files) = {"Live/one.als", "Live/two.als"})
        => RoundTripOutcome("CompanyX")

(***************************************************************************)
(* C5, amended: the counter is 2 and the registry has 2 entries in either  *)
(* order; the manufacturer is "CompanyX" when the discoverer returns       *)
(* one.als before two.als, and "Unknown" when it returns two.als first.    *)
(***************************************************************************)
C5_RoundTripInOrder ==
    /\ (FreshScanDone /\ als_files = <<"Live/one.als", "Live/two.als">>)
          => RoundTripOutcome("CompanyX")
    /\ (FreshScanDone /\ als_files = <<"Live/two.als", "Live/one.als">>)
          => RoundTripOutcome("Unknown")

C5_Witness ==
    /\ FreshScanDone
    /\ als_files = <<"Live/one.als", "Live/two.als">>
    /\ Occurrences("Live/one.als", "Widget.dll") = 2
    /\ Get(vst_manufacturers, "Widget.dll") = "CompanyX"

(***************************************************************************)
(* C6: a scan of a directory with no qualifying project file leaves the    *)
(* Usage Counter and the Project Registry empty, whatever an earlier scan  *)
(* left in them, and a report generated afterwards carries the line that   *)
(* no plugins were found.                                                  *)
(***************************************************************************)
NoPluginsLine == "No VST plugins found in the scanned projects."

C6_EmptyDirectory ==
    (ScanDone /\ als_files = <<>>) =>
        /\ vst_usage = EmptyMap
        /\ project_vsts = EmptyMap
        /\ report # <<>> => \E i \in 1..Len(report) : report[i].section = NoPluginsLine

\* The second scan found nothing, the first had found plugins, and a report
\* was generated after the second.
C6_Witness ==
    /\ ScanDone
    /\ scans >= 2
    /\ als_files = <<>>
    /\ start_manufacturers # EmptyMap
    /\ report # <<>>

(***************************************************************************)
(* C7: the Project Registry has an entry for a processed file if and only  *)
(* if the parser returned at least one reference for it; the entry is the  *)
(* parser's list for that file, each reference once; files with an empty   *)
(* list leave no entry and change no counter, so that every counter is the *)
(* number of registry entries holding the reference.                       *)
(***************************************************************************)
C7_RegistryMatchesParser ==
    scans > 0 =>
        /\ DOMAIN project_vsts =
              {als_files[i] : i \in {i \in 1..file_index :
                                        ParseSet(als_files[i]) # {}}}
        /\ \A f \in DOMAIN project_vsts :
              /\ Range(project_vsts[f]) = ParseSet(f)
              /\ Len(project_vsts[f]) = Cardinality(ParseSet(f))
        /\ \A p \in DOMAIN vst_usage :
              /\ vst_usage[p] > 0
              /\ vst_usage[p] =
                    Cardinality({f \in DOMAIN project_vsts :
                                    p \in Range(project_vsts[f])})

\* A file with an empty list and a file with two references were processed.
C7_Witness ==
    /\ ScanDone
    /\ \E i \in 1..Len(als_files) : ParseSet(als_files[i]) = {}
    /\ \E f \in DOMAIN project_vsts : Len(project_vsts[f]) = 2

(***************************************************************************)
(* C8: the commit at the end of a successful parse.  Original statement:   *)
(* every reference found in the file with no entry in the global mapping   *)
(* gets the file-local manufacturer if the file-local table has an entry   *)
(* for it, otherwise the Rule B result if there is one, otherwise          *)
(* "Unknown"; references with a global entry are left unchanged.           *)
(***************************************************************************)
\* The step that parses als_files[file_index + 1].
ParseStep == pc = "parsing" /\ file_index' = file_index + 1

NameOrUnknown(vst) ==
    IF get_manufacturer_from_plugin_name(vst) # ""
    THEN get_manufacturer_from_plugin_name(vst)
    ELSE "Unknown"

\* The mapping after the parse, given which references take the local value.
CommitsAs(w, takes_local(_)) ==
    /\ DOMAIN vst_manufacturers' = DOMAIN vst_manufacturers \cup Range(w.found)
    /\ \A r \in DOMAIN vst_manufacturers :
          vst_manufacturers'[r] = vst_manufacturers[r]
    /\ \A r \in Range(w.found) \ DOMAIN vst_manufacturers :
          vst_manufacturers'[r] =
              IF takes_local(r) THEN w.local[r] ELSE NameOrUnknown(r)

C8_Original ==
    [][(ParseStep /\ ~Corrupt(als_files[file_index + 1])) =>
          LET w == Walk(als_files[file_index + 1])
              has_entry(r) == r \in DOMAIN w.local
          IN  CommitsAs(w, has_entry)]_vars

(***************************************************************************)
(* C8, amended: the file-local manufacturer is taken if the file-local     *)
(* table has a non-empty entry for the reference (a browser content path   *)
(* with an empty manufacturer field leaves an empty entry, which counts as *)
(* none); otherwise Rule B, otherwise "Unknown"; references with a global  *)
(* entry are left unchanged.                                               *)
(***************************************************************************)
C8_CommitPriority ==
    [][(ParseStep /\ ~Corrupt(als_files[file_index + 1])) =>
          LET w == Walk(als_files[file_index + 1])
              has_manufacturer(r) == r \in DOMAIN w.local /\ w.local[r] # ""
          IN  CommitsAs(w, has_manufacturer)]_vars

\* four.als then five.ALS on a fresh auditor: a reference resolved from the
\* file-local table although Rule B matches it, one resolved by Rule B, one
\* with an empty file-local entry resolved to "Unknown", and Widget.dll of
\* the second file left as the first file committed it.
C8_Witness ==
    /\ scans = 1
    /\ als_files = <<"Live/four.als", "Live/five.ALS">>
    /\ file_index = 2
    /\ get_manufacturer_from_plugin_name("TAL-Chorus.dll") = "TAL-Software"
    /\ Get(vst_manufacturers, "TAL-Chorus.dll") = "Togu"
    /\ Get(vst_manufacturers, "TAL-Reverb-4") = "TAL-Software"
    /\ \E r \in DOMAIN Walk("Live/four.als").local :
          Walk("Live/four.als").local[r] = "" /\ vst_manufacturers[r] = "Unknown"
    /\ Get(Walk("Live/five.ALS").local, "Widget.dll") = "Acme Audio"

(***************************************************************************)
(* C9: Rule A.  Original statement: the path is split on both separators,  *)
(* the segment ending in .dll is located, and the preceding segments are   *)
(* scanned backward; the first one that is non-empty, longer than 2        *)
(* characters and not a case-insensitive member of the stoplist is         *)
(* returned, and no match when none qualifies; for                         *)
(* .../SomeVendor/vst/reverb/Plugin.dll the result is "SomeVendor".        *)
(***************************************************************************)
SegmentQualifies(segment) ==
    /\ segment # ""
    /\ Len(segment) > 2
    /\ \A stop \in skip_folders : Lower(segment) # stop

\* The nearest segment before the DLL segment that passes the test, as the
\* test sees it; "" for no match.
NearestBefore(path, seen(_), test(_)) ==
    LET parts == PathParts(path)
        dll == {i \in 1..Len(parts) : EndsWith(Lower(parts[i]), ".dll")}
        first == IF dll = {} THEN 0 ELSE CHOOSE i \in dll : \A k \in dll : i <= k
        ok == {j \in 1..(first - 1) : test(seen(parts[j]))}
    IN  IF ok = {} THEN ""
        ELSE seen(parts[CHOOSE j \in ok : \A k \in ok : k <= j])

AsWritten(segment) == segment

RuleAExample == ".../SomeVendor/vst/reverb/Plugin.dll"

C9_Original ==
    rule_a.done =>
        /\ rule_a.result = NearestBefore(path_arg, AsWritten, SegmentQualifies)
        /\ path_arg = RuleAExample => rule_a.result = "SomeVendor"

(***************************************************************************)
(* C9, amended: each preceding segment is first stripped of surrounding    *)
(* whitespace; the three tests apply to the stripped segment and the       *)
(* stripped segment is what is returned.                                   *)
(***************************************************************************)
C9_RuleAStripped ==
    rule_a.done =>
        /\ rule_a.result = NearestBefore(path_arg, Strip, SegmentQualifies)
        /\ path_arg = RuleAExample => rule_a.result = "SomeVendor"

\* Rule A has run on the example path and skipped "reverb" and "vst".
C9_Witness ==
    /\ rule_a.done
    /\ path_arg = RuleAExample
    /\ rule_a.result = "SomeVendor"

(***************************************************************************)
(* C10: generate_report with an empty Usage Counter.  Original statement:  *)
(* a single "no plugins found" line is written and none of the five        *)
(* sections, the header included.                                          *)
(***************************************************************************)
ReportTitle == "ABLETON VST AUDIT REPORT"

BodySections ==
    {"VST USAGE SUMMARY (by frequency)", "VSTS BY MANUFACTURER",
     "ALPHABETICAL VST LIST", "PROJECT BREAKDOWN"}

\* A report was generated and the counter it was generated from is empty.
ReportOfEmptyCounter == report # <<>> /\ DOMAIN vst_usage = {}

C10_Original ==
    ReportOfEmptyCounter =>
        /\ Len(report) = 1
        /\ report[1].section = NoPluginsLine

(***************************************************************************)
(* C10, amended: the header section (title and the two totals) is written  *)
(* first, then the single "no plugins found" line, and none of the other   *)
(* four sections.                                                          *)
(***************************************************************************)
C10_HeaderThenNoPlugins ==
    ReportOfEmptyCounter =>
        /\ Len(report) = 2
        /\ report[1].section = ReportTitle
        /\ report[2].section = NoPluginsLine
        /\ \A i \in 1..Len(report) : report[i].section \notin BodySections

\* A report generated after a scan that counted nothing.
C10_Witness ==
    /\ ReportOfEmptyCounter
    /\ ScanDone
    /\ report[2].section = NoPluginsLine

(***************************************************************************)
(* C11: the order of the progress notifications of one scan_directory      *)
(* call, the hook being set.  Original statement: the discovery-start      *)
(* message comes first, then one per-file message for each discovered file *)
(* in processing order, each sent before its file is parsed, and the       *)
(* completion summary is the last message of the call, whatever the number *)
(* of discovered files, zero included.                                     *)
(***************************************************************************)
IsProcessing(message) == message[1] = "Processing: "

IsComplete(message) == message[1] = "Scan complete! Found "

\* The per-file messages of the first n files of the list, in list order.
ProcessingMessages(files, n) ==
    [i \in 1..n |-> ProcessingMessage(basename(files[i]))]

\* How many files the loop has taken and announced.
Announced == IF pc = "parsing" THEN file_index + 1 ELSE file_index

\* A scan_directory call was made with the hook set.
HookCalled == progress_callback /\ scans > 0

\* First message, one message per announced file in order, and no file
\* parsed before its message.
PerFileInOrder ==
    /\ progress[1] = FindingMessage
    /\ SelectSeq(progress, IsProcessing) = ProcessingMessages(als_files, Announced)
    /\ processed_files = file_index
    /\ processed_files <= Len(SelectSeq(progress, IsProcessing))
    /\ pc = "parsing" => progress[Len(progress)] =
                             ProcessingMessage(basename(als_files[file_index + 1]))

C11_Original ==
    HookCalled =>
        /\ PerFileInOrder
        /\ ScanDone =>
              /\ IsComplete(progress[Len(progress)])
              /\ Len(SelectSeq(progress, IsComplete)) = 1
              /\ Len(SelectSeq(progress, IsProcessing)) = Len(als_files)

(***************************************************************************)
(* C11, amended: with one or more discovered files the call sends the      *)
(* discovery-start message, the "Found N" message, one per-file message    *)
(* for each file in processing order, each before its file is parsed, and  *)
(* the completion summary last; with no discovered file it sends the       *)
(* discovery-start message and then the "No .als files found" message, and *)
(* no completion summary.                                                  *)
(***************************************************************************)
C11_ProgressOrder ==
    HookCalled =>
        /\ PerFileInOrder
        /\ als_files = <<>> => progress = <<FindingMessage, NoFilesMessage>>
        /\ als_files # <<>> =>
              progress =
                  <<FindingMessage, FoundMessage(Len(als_files))>>
                  \o ProcessingMessages(als_files, Announced)
                  \o (IF pc = "idle"
                      THEN <<CompleteMessage(Cardinality(DOMAIN vst_usage))>>
                      ELSE <<>>)

\* A scan of two files has returned with the hook set, and a counted
\* reference is reported in the summary.
C11_Witness ==
    /\ HookCalled
    /\ ScanDone
    /\ Len(als_files) = 2
    /\ Len(progress) = 5
    /\ progress[5] = CompleteMessage(1)

(***************************************************************************)
(* C12: scan_directory takes no lock, and two calls running at the same    *)
(* time on one auditor can corrupt the counters.  When both calls have     *)
(* returned, the Usage Counter and the processed-file count can differ     *)
(* from what the files of the call that started last hold only if that     *)
(* call started while the other was still running; and such a state is     *)
(* reached (C12_Witness): both callers scan the single file one.als and    *)
(* its one plugin ends up counted twice.                                   *)
(***************************************************************************)
ThreadsDone == \A t \in Threads : threads.run[t].pc = "done"

\* The files of the list in which p was found at least once.
ContainingIn(files, p) ==
    {i \in 1..Len(files) : Occurrences(files[i], p) >= 1}

\* The counters are what one scan of the list leaves.
CountersMatch(files) ==
    /\ processed_files = Len(files)
    /\ \A p \in DOMAIN vst_usage
                \cup UNION {DOMAIN OccurrenceTable[os_name][f] : f \in ThreadFiles} :
          Get0(vst_usage, p) = Cardinality(ContainingIn(files, p))

C12_CorruptionNeedsOverlap ==
    (ThreadsDone /\ ~threads.overlapped) =>
        CountersMatch(threads.run[threads.started[Len(threads.started)]].als_files)

\* Both callers scanned the one file one.als, the calls overlapped, and
\* Widget.dll, held by that single file, is counted twice.
C12_Witness ==
    /\ ThreadsDone
    /\ threads.overlapped
    /\ \A t \in Threads : threads.run[t].als_files = <<"Live/one.als">>
    /\ Get0(vst_usage, "Widget.dll") = 2
    /\ Cardinality(ContainingIn(<<"Live/one.als">>, "Widget.dll")) = 1
    /\ \A t \in Threads : ~CountersMatch(threads.run[t].als_files)

(***************************************************************************)
(* C13: the result of a scan of a fresh auditor against the order in which *)
(* find_als_files returns the files.  Original statement: for every other  *)
(* processing order of the same files the Usage Counter, the Project       *)
(* Registry (file path -> set of references) and the Manufacturer Mapping  *)
(* are the same.                                                           *)
(***************************************************************************)
\* Every order of the same files.
Orders(files) ==
    {q \in [1..Len(files) -> Range(files)] : Range(q) = Range(files)}

C13_Original ==
    FreshScanDone =>
        \A q \in Orders(als_files) : Aggregated = ScanOutcome(EmptyMap, q)

\* The first file of the list whose parse found reference r.
FirstHolder(files, r) ==
    files[CHOOSE i \in 1..Len(files) :
              /\ r \in ParseSet(files[i])
              /\ \A j \in 1..(i - 1) : r \notin ParseSet(files[j])]

\* What the parse of file f alone resolves reference r to.
ResolvedBy(f, r) ==
    LET local == Walk(f).local
    IN  IF r \in DOMAIN local /\ local[r] # "" THEN local[r]
        ELSE NameOrUnknown(r)

(***************************************************************************)
(* C13, amended: the Usage Counter and the Project Registry (file path ->  *)
(* set of references) are the same for every processing order of the same  *)
(* files, and so is the set of references the Manufacturer Mapping holds;  *)
(* the manufacturer of a reference is the one resolved by the first file   *)
(* in processing order that holds the reference, so it can differ between  *)
(* two orders.                                                             *)
(***************************************************************************)
C13_CountersOrderFree ==
    FreshScanDone =>
        /\ \A q \in Orders(als_files) :
              LET other == ScanOutcome(EmptyMap, q)
              IN  /\ Aggregated.usage = other.usage
                  /\ Aggregated.registry = other.registry
                  /\ DOMAIN vst_manufacturers = DOMAIN other.manufacturers
        /\ \A r \in DOMAIN vst_manufacturers :
              vst_manufacturers[r] = ResolvedBy(FirstHolder(als_files, r), r)

\* A fresh scan of two.als then one.als: the other order gives the same
\* counter and registry and another manufacturer for Widget.dll.
C13_Witness ==
    /\ FreshScanDone
    /\ als_files = <<"Live/two.als", "Live/one.als">>
    /\ vst_usage["Widget.dll"] = 2
    /\ vst_manufacturers["Widget.dll"] = "Unknown"
    /\ ScanOutcome(EmptyMap, <<"Live/one.als", "Live/two.als">>).usage = vst_usage
    /\ ScanOutcome(EmptyMap, <<"Live/one.als", "Live/two.als">>)
           .manufacturers["Widget.dll"] = "CompanyX"

(***************************************************************************)
(* C14: when the walk is at a browser-content-path element holding         *)
(* query:Plugins#VST:<manufacturer>:<pluginName>, the decoded manufacturer *)
(* becomes the file-local entry of every reference found so far whose      *)
(* string contains, or is contained in, the decoded plugin name, case      *)
(* ignored, whatever the entry was; the entries of the other references    *)
(* found so far are unchanged, no reference is added, and nothing is       *)
(* recorded for a reference the walk has not found yet.                    *)
(***************************************************************************)
\* The decoded fields of the browser content paths of the documents.
BrowserMeaning(value) ==
    CASE value = "query:Plugins#VST:Acme%20Audio:WIDGET" ->
             [manufacturer |-> "Acme Audio", plugin_name |-> "WIDGET"]
      [] value = "query:Plugins#VST::Widget" ->
             [manufacturer |-> "", plugin_name |-> "Widget"]

\* The step that takes a browser-content-path element.
BrowserElemStep ==
    /\ walk.k < Len(walk.doc)
    /\ walk.doc[walk.k + 1].tag = "BrowserContentPath"
    /\ walk'.k = walk.k + 1

SubstringMatch(r, plugin_name) ==
    \/ Contains(Lower(r), Lower(plugin_name))
    \/ Contains(Lower(plugin_name), Lower(r))

C14_BrowserOverwrites ==
    [][BrowserElemStep =>
          LET value == walk.doc[walk.doc[walk.k + 1].children[1]].text
              m == BrowserMeaning(value)
          IN  /\ walk'.found = walk.found
              /\ DOMAIN walk'.local \subseteq Range(walk.found)
              /\ \A r \in Range(walk.found) :
                    IF SubstringMatch(r, m.plugin_name)
                    THEN /\ r \in DOMAIN walk'.local
                         /\ walk'.local[r] = m.manufacturer
                    ELSE /\ r \in DOMAIN walk'.local <=> r \in DOMAIN walk.local
                         /\ r \in DOMAIN walk.local =>
                               walk'.local[r] = walk.local[r]]_vars

\* PlugCo/Widget.dll, Togu/TAL-Chorus.dll, then the browser content path of
\* Acme Audio: the path-derived PlugCo was replaced and Togu was kept.
C14_Witness ==
    /\ walk.doc = BuildDoc(<<Item("text", "PlugCo/Widget.dll"),
                             Item("text", "Togu/TAL-Chorus.dll"),
                             Item("browser", "query:Plugins#VST:Acme%20Audio:WIDGET")>>)
    /\ walk.k = 4
    /\ extract_manufacturer_from_path("PlugCo/Widget.dll") = "PlugCo"
    /\ walk.local["Widget.dll"] = "Acme Audio"
    /\ walk.local["TAL-Chorus.dll"] = "Togu"

(***************************************************************************)
(* C15: for every occurrence of a DLL path in the file, as element text or *)
(* as attribute value, the parser takes the Rule A candidate of the full   *)
(* path and, when there is one and the reference has no file-local entry   *)
(* yet, records it: also when an earlier occurrence of the same reference  *)
(* had a path with no candidate.                                           *)
(***************************************************************************)
\* The DLL paths of an element: its text and its attribute values.
DllPathsOf(elem) ==
    {Strip(x) : x \in {y \in {elem.text} \cup {elem.attrib[i][2] : i \in 1..Len(elem.attrib)} :
                          IsDllValue(y)}}

\* The step that takes the next element.
ElemTaken == walk.k < Len(walk.doc) /\ walk'.k = walk.k + 1

C15_EveryOccurrence ==
    [][ElemTaken =>
          \A path \in DllPathsOf(walk.doc[walk.k + 1]) :
              LET r == BasenameOn(os_name, path)
                  m == extract_manufacturer_from_path(path)
              IN  (r # "" /\ m # "" /\ r \notin DOMAIN walk.local) =>
                      (r \in DOMAIN walk'.local /\ walk'.local[r] = m)]_vars

\* What the code does: the candidate is taken only at the occurrence that
\* discovers the reference.
C15_FirstOccurrenceOnly ==
    [][ElemTaken =>
          \A path \in DllPathsOf(walk.doc[walk.k + 1]) :
              LET r == BasenameOn(os_name, path)
                  m == extract_manufacturer_from_path(path)
              IN  /\ (r # "" /\ m # "" /\ ~InList(r, walk.found)) =>
                         (r \in DOMAIN walk'.local /\ walk'.local[r] = m)
                  /\ InList(r, walk.found) => walk'.local = walk.local]_vars

(***************************************************************************)
(* C16: in the GUI, from the start of the worker by start_scan until       *)
(* scan_complete or scan_error has run on the foreground thread, the scan  *)
(* button and the save button are both disabled; so at most one scan       *)
(* worker is running, and neither save_report (with generate_report) nor   *)
(* display_results reads the auditor's tables while a worker is running.   *)
(***************************************************************************)
\* A worker is running, or its scan_complete or scan_error has not run yet.
ScanUnderWay == gui.workers > 0 \/ gui.after # <<>>

C16_SingleWriterSingleReader ==
    /\ ScanUnderWay =>
          gui.scan_button = "disabled" /\ gui.save_button = "disabled"
    /\ gui.workers <= 1
    /\ gui.reading # "" => gui.workers = 0 /\ pc = "idle"

\* A second scan is running, the first one having found plugins and been
\* displayed: the worker is parsing and both buttons are disabled.
C16_Witness ==
    /\ gui.workers = 1
    /\ scans = 2
    /\ pc = "parsing"
    /\ DOMAIN vst_manufacturers # {}
    /\ gui.scan_button = "disabled"
    /\ gui.save_button = "disabled"
    /\ gui.reading = ""

=============================================================================
